---- MODULE Spec2Model ----
(***************************************************************************)
(* Disney Parks chatbot (Disney_Chatbot.py): the FAQ keyword scan, the     *)
(* completion fallback, the speech synthesis helper with its temporary     *)
(* file, and the chat-input handler that appends turns to the session      *)
(* transcript.                                                             *)
(*                                                                         *)
(* Python values are tagged records: a str is a sequence of text chunks    *)
(* (questions are chunked per character because the keyword scan looks     *)
(* inside them), bytes is a sequence of chunks, None has its own tag.      *)
(***************************************************************************)
EXTENDS Integers, Sequences, FiniteSets, TLC

VARIABLES
    messages,        \* st.session_state.messages
    pc,              \* position of the script run inside the chat-input handler
    prompt,          \* handler local: the submitted question
    response,        \* handler local: text returned by get_response
    source,          \* handler local: tag returned by get_response
    audio_bytes,     \* value text_to_speech returns to the handler
    temp_filename,   \* text_to_speech local
    speech,          \* text_to_speech local: the endpoint's response object
    tmpdir,          \* temporary files on disk: name -> content
    nextTmp,         \* names handed out by tempfile so far
    screen,          \* widgets written by the current script run
    completionCalls, \* requests received by the chat completion endpoint
    completion,      \* what the completion endpoint did in this script run
    ttsCalls,        \* calls of text_to_speech so far
    tts_error,       \* exception raised inside text_to_speech in this script run
    returned,        \* log of the values get_response returned
    escaped          \* exception that left the script run uncaught, if any

vars == <<messages, pc, prompt, response, source, audio_bytes, temp_filename,
          speech, tmpdir, nextTmp, screen, completionCalls, completion, ttsCalls,
          tts_error, returned, escaped>>

----------------------------------------------------------------------------
(* Bounds *)

MaxQuestions == 2

MaxFrags == 3

MaxContentLen == 1

----------------------------------------------------------------------------
(* Python values *)

None == [type |-> "NoneType", val |-> <<>>]

Str(s) == [type |-> "str", val |-> s]

Bytes(b) == [type |-> "bytes", val |-> b]

Truthy(v) == v.type # "NoneType" /\ v.val # <<>>

UpperAlpha ==
    <<"A","B","C","D","E","F","G","H","I","J","K","L","M",
      "N","O","P","Q","R","S","T","U","V","W","X","Y","Z">>

LowerAlpha ==
    <<"a","b","c","d","e","f","g","h","i","j","k","l","m",
      "n","o","p","q","r","s","t","u","v","w","x","y","z">>

lower_char(c) ==
    IF \E i \in 1..26 : UpperAlpha[i] = c
    THEN LowerAlpha[CHOOSE i \in 1..26 : UpperAlpha[i] = c]
    ELSE c

lower(s) == [i \in 1..Len(s) |-> lower_char(s[i])]

contains(needle, hay) ==
    \E i \in 0..(Len(hay) - Len(needle)) :
        \A j \in 1..Len(needle) : hay[i + j] = needle[j]

----------------------------------------------------------------------------
(* The FAQ table, in insertion order *)

faq_responses == <<
    [key |-> <<"t","i","c","k","e","t","s">>,
     answer |-> <<"Disney offers a variety of ticket options including single-day, multi-day, and Park Hopper tickets. Prices vary based on the season. Visit the official website for pricing and reservations.">>],
    [key |-> <<"p","a","r","k"," ","r","e","s","e","r","v","a","t","i","o","n","s">>,
     answer |-> <<"Park reservations are required in addition to tickets for entry. You can make a reservation through My Disney Experience. Make sure to check park availability before purchasing tickets.">>],
    [key |-> <<"b","e","s","t"," ","a","t","t","r","a","c","t","i","o","n","s">>,
     answer |-> <<"Top attractions include Space Mountain, Haunted Mansion, Star Wars: Rise of the Resistance, and Guardians of the Galaxy: Cosmic Rewind. Let me know your interests for a tailored recommendation!">>],
    [key |-> <<"d","i","n","i","n","g"," ","r","e","s","e","r","v","a","t","i","o","n","s">>,
     answer |-> <<"Advanced Dining Reservations (ADRs) can be made up to 60 days in advance for most restaurants. Popular dining experiences like Cinderella's Royal Table and Be Our Guest require early booking.">>],
    [key |-> <<"g","e","n","i","e","+">>,
     answer |-> <<"Genie+ is a paid service that allows you to skip standby lines for certain attractions. It can be purchased through My Disney Experience and is available on a per-day basis. Lightning Lane access is limited, so book early in the day!">>],
    [key |-> <<"t","r","a","n","s","p","o","r","t","a","t","i","o","n">>,
     answer |-> <<"Disney offers complimentary transportation including buses, Monorail, Skyliner, and boats between parks and resorts. Ride-share services and parking options are also available.">>],
    [key |-> <<"a","c","c","o","m","m","o","d","a","t","i","o","n","s">>,
     answer |-> <<"Disney Resorts range from Value to Deluxe categories, each offering unique themes and amenities. Deluxe resorts provide additional perks such as extended evening hours and closer proximity to the parks.">>],
    [key |-> <<"w","e","a","t","h","e","r"," ","p","o","l","i","c","y">>,
     answer |-> <<"Most attractions remain open during rain, but outdoor rides may temporarily close during storms. Ponchos and umbrellas are recommended for rainy days.">>],
    [key |-> <<"r","e","f","u","n","d"," ","p","o","l","i","c","y">>,
     answer |-> <<"Tickets are generally non-refundable but can be modified. Hotel cancellations depend on booking terms and how far in advance the cancellation is made.">>],
    [key |-> <<"s","p","e","c","i","a","l"," ","e","v","e","n","t","s">>,
     answer |-> <<"Disney hosts seasonal events such as Mickey's Not-So-Scary Halloween Party, EPCOT's Food & Wine Festival, and Very Merry Christmas Party. Special tickets may be required.">>]
>>

----------------------------------------------------------------------------
(* The chat completion endpoint, as seen by get_openai_response: either    *)
(* create() raises, or it returns an object with a list of choices.        *)

NoError == <<>>

ErrorDetails == { <<"Connection error.">>, <<"Error code: 401">> }

IndexErrorDetail == <<"list index out of range">>

AITokens == { "Yes!" }

AITexts == UNION { [1..n -> AITokens] : n \in 0..MaxContentLen }

CompletionOutcomes ==
    { [error |-> d, choices |-> <<>>] : d \in ErrorDetails }
    \cup { [error |-> NoError, choices |-> <<>>] }
    \cup { [error |-> NoError, choices |-> <<[content |-> None]>>] }
    \cup { [error |-> NoError, choices |-> <<[content |-> Str(t)]>>] : t \in AITexts }

max_tokens == 300

ApologyPrefix == <<"Sorry, I couldn't generate a response at the moment. Error: ">>

PromptPrefix == <<"Please answer this Disney-related question: ">>

\* get_openai_response with the except clause letting the failure through.
get_openai_response_reraise(p, outcome) ==
    IF outcome.error # NoError
    THEN [value |-> None, raised |-> outcome.error, calls |-> 1]
    ELSE IF outcome.choices = <<>>
    THEN [value |-> None, raised |-> IndexErrorDetail, calls |-> 1]
    ELSE [value |-> outcome.choices[1].content, raised |-> NoError, calls |-> 1]

\* get_openai_response asking the endpoint a second time after a failure.
get_openai_response_retry(p, outcome) ==
    IF outcome.error # NoError
    THEN [value |-> Str(ApologyPrefix \o outcome.error), raised |-> NoError, calls |-> 2]
    ELSE IF outcome.choices = <<>>
    THEN [value |-> Str(ApologyPrefix \o IndexErrorDetail), raised |-> NoError, calls |-> 2]
    ELSE [value |-> outcome.choices[1].content, raised |-> NoError, calls |-> 1]

\* def get_openai_response(prompt): the value returned, the exception that
\* leaves the function (NoError when none does) and the requests issued.
get_openai_response(p, outcome) ==
    IF outcome.error # NoError
    THEN [value |-> Str(ApologyPrefix \o outcome.error), raised |-> NoError, calls |-> 1]
    ELSE IF outcome.choices = <<>>
    THEN [value |-> Str(ApologyPrefix \o IndexErrorDetail), raised |-> NoError, calls |-> 1]
    ELSE [value |-> outcome.choices[1].content, raised |-> NoError, calls |-> 1]

\* The keys of faq_responses that occur in the lowercased question.
faq_hits(question_lower) ==
    { i \in 1..Len(faq_responses) : contains(faq_responses[i].key, question_lower) }

Min(S) == CHOOSE x \in S : \A y \in S : x <= y

\* get_response preferring the longest matching keyword to the first one.
get_response_longest_match(question, outcome) ==
    LET question_lower == lower(question)
        hits == faq_hits(question_lower)
        longest == CHOOSE i \in hits :
                       \A j \in hits : Len(faq_responses[j].key) <= Len(faq_responses[i].key)
    IN  IF hits # {}
        THEN [response |-> Str(faq_responses[longest].answer), source |-> "FAQ",
              raised |-> NoError, calls |-> 0]
        ELSE LET r == get_openai_response(PromptPrefix \o question, outcome)
             IN  [response |-> r.value, source |-> "AI",
                  raised |-> r.raised, calls |-> r.calls]

\* def get_response(question)
get_response(question, outcome) ==
    LET question_lower == lower(question)
        hits == faq_hits(question_lower)
    IN  IF hits # {}
        THEN [response |-> Str(faq_responses[Min(hits)].answer), source |-> "FAQ",
              raised |-> NoError, calls |-> 0]
        ELSE LET r == get_openai_response(PromptPrefix \o question, outcome)
             IN  [response |-> r.value, source |-> "AI",
                  raised |-> r.raised, calls |-> r.calls]

----------------------------------------------------------------------------
(* Questions *)

Fragments == {
    <<"T","i","c","k","e","t","s">>,
    <<"p","a","r","k"," ">>,
    <<"d","i","n","i","n","g"," ">>,
    <<"R","e","s","e","r","v","a","t","i","o","n","s">>,
    <<"w","e","a","t","h","e","r"," ">>,
    <<"p","o","l","i","c","y">>,
    <<"G","E","N","I","E","+">>,
    <<"r","i","d","e","s">> }

RECURSIVE Join(_)
Join(fs) == IF fs = <<>> THEN <<>> ELSE Head(fs) \o Join(Tail(fs))

Questions == { Join(fs) : fs \in UNION { [1..n -> Fragments] : n \in 1..MaxFrags } }

\* Questions put to a whole session: a FAQ hit, a question matching two
\* keywords, and a miss that holds only a part of "weather policy".
SessionQuestions == {
    <<"T","i","c","k","e","t","s">>,
    <<"G","E","N","I","E","+"," ","t","i","c","k","e","t","s">>,
    <<"w","e","a","t","h","e","r">> }

----------------------------------------------------------------------------
(* Turns *)

UserTurn(content) == [role |-> "user", content |-> content]

\* The assistant turn stored with a fixed tag instead of the resolver's.
AssistantTurn_fixed_tag(content, src) ==
    [role |-> "assistant", content |-> content, source |-> "AI"]

AssistantTurn(content, src) == [role |-> "assistant", content |-> content, source |-> src]

Widget(kind, body) == [widget |-> kind, body |-> body]

----------------------------------------------------------------------------
(* The speech endpoint and the temporary directory *)

AudioStreams == { <<>>, <<"ID3">> }

TtsErrors == { <<"Connection error.">> }

TtsResults ==
    { [error |-> e, data |-> <<>>] : e \in TtsErrors }
    \cup { [error |-> NoError, data |-> d] : d \in AudioStreams }

OSErrorDetail == <<"[Errno 28] No space left on device">>

IOErrorDetail == <<"[Errno 5] Input/output error">>

BadRequestDetail == <<"Error code: 400">>

\* os.unlink(name)
unlink(dir, name) == [n \in (DOMAIN dir) \ {name} |-> dir[n]]

\* the file `name` holding `data`
write(dir, name, data) ==
    [n \in (DOMAIN dir) \cup {name} |-> IF n = name THEN data ELSE dir[n]]

----------------------------------------------------------------------------
(* The chat-input handler *)

NoCall == [error |-> <<"no call">>, choices |-> <<>>]

\* The handler appending the assistant turn before it calls text_to_speech.
after_append_first(step) ==
    CASE step = "get_response" -> "append"
      [] step = "append" -> "tts_tempfile"
      [] step = "text_to_speech" -> "idle"

\* The order of the handler's statements: get_response (line 133), then
\* text_to_speech (line 145), then the append of the assistant turn (line
\* 151), which ends the script run.
after(step) ==
    CASE step = "get_response" -> "tts_tempfile"
      [] step = "text_to_speech" -> "append"
      [] step = "append" -> "idle"

Init ==
    /\ messages = <<>>
    /\ pc = "idle"
    /\ prompt = <<>>
    /\ response = None
    /\ source = "None"
    /\ audio_bytes = None
    /\ temp_filename = 0
    /\ speech = <<>>
    /\ tmpdir = <<>>
    /\ nextTmp = 0
    /\ screen = <<>>
    /\ completionCalls = 0
    /\ completion = NoCall
    /\ ttsCalls = 0
    /\ tts_error = NoError
    /\ returned = <<>>
    /\ escaped = NoError

\* if prompt := st.chat_input(...): a new script run appends the user turn
\* and echoes it.
Submit(q) ==
    /\ pc = "idle"
    /\ Len(messages) < 2 * MaxQuestions
    /\ prompt' = q
    /\ messages' = Append(messages, UserTurn(Str(q)))
    /\ screen' = <<Widget("markdown", Str(q))>>
    /\ response' = None
    /\ source' = "None"
    /\ audio_bytes' = None
    /\ completion' = NoCall
    /\ tts_error' = NoError
    /\ pc' = "get_response"
    /\ UNCHANGED <<temp_filename, speech, tmpdir, nextTmp, completionCalls,
                   ttsCalls, returned, escaped>>

\* The caption shown under the answer.
Caption(src) ==
    IF src = "FAQ"
    THEN Widget("caption", Str(<<"This is a predefined answer from our FAQ database">>))
    ELSE Widget("caption", Str(<<"This response was generated by AI">>))

\* response, source = get_response(prompt), then the answer and its caption
\* are displayed.  An exception leaving get_response ends the script run.
Resolve(outcome) ==
    /\ pc = "get_response"
    /\ LET r == get_response(prompt, outcome)
       IN  /\ completionCalls' = completionCalls + r.calls
           /\ completion' = IF r.calls > 0 THEN outcome ELSE NoCall
           /\ IF r.raised # NoError
              THEN /\ escaped' = r.raised
                   /\ pc' = "idle"
                   /\ UNCHANGED <<response, source, screen, returned>>
              ELSE /\ response' = r.response
                   /\ source' = r.source
                   /\ returned' = Append(returned,
                          [question |-> prompt, response |-> r.response,
                           source |-> r.source])
                   /\ screen' = screen \o <<Widget("markdown", r.response),
                                            Caption(r.source)>>
                   /\ pc' = after("get_response")
                   /\ UNCHANGED escaped
    /\ UNCHANGED <<messages, prompt, audio_bytes, temp_filename, speech, tmpdir,
                   nextTmp, ttsCalls, tts_error>>

\* text_to_speech without its except clause: the failure leaves the function
\* and ends the script run.
TtsExcept_reraise(e) ==
    /\ escaped' = e
    /\ pc' = "idle"
    /\ UNCHANGED <<screen, audio_bytes, messages>>

\* except Exception as e: st.error(...); return None.  Back in the handler,
\* `if audio_bytes:` is false and no audio widget is written.
TtsExcept(e) ==
    /\ screen' = screen \o <<Widget("error", Str(<<"Error generating audio: ">> \o e))>>
    /\ audio_bytes' = None
    /\ pc' = after("text_to_speech")
    /\ UNCHANGED <<escaped, messages>>

\* text_to_speech(response) is entered:
\* temp_file = tempfile.NamedTemporaryFile(delete=False, suffix='.mp3');
\* temp_filename = temp_file.name; temp_file.close()
TtsTempFile(ok) ==
    /\ pc = "tts_tempfile"
    /\ ttsCalls' = ttsCalls + 1
    /\ IF ok
       THEN /\ nextTmp' = nextTmp + 1
            /\ temp_filename' = nextTmp + 1
            /\ tmpdir' = write(tmpdir, nextTmp + 1, <<>>)
            /\ pc' = "tts_request"
            /\ UNCHANGED <<screen, audio_bytes, escaped, messages, tts_error>>
       ELSE /\ tts_error' = OSErrorDetail
            /\ TtsExcept(OSErrorDetail)
            /\ UNCHANGED <<nextTmp, temp_filename, tmpdir>>
    /\ UNCHANGED <<prompt, response, source, speech, completionCalls, completion,
                   returned>>

\* response = client.audio.speech.create(model="tts-1", voice="nova", input=text)
\* The endpoint rejects an input that is not a non-empty string.
TtsRequest(result) ==
    /\ pc = "tts_request"
    /\ IF result.error = NoError /\ Truthy(response)
       THEN /\ speech' = result.data
            /\ pc' = "tts_stream"
            /\ UNCHANGED <<screen, audio_bytes, escaped, messages, tts_error>>
       ELSE LET e == IF result.error = NoError THEN BadRequestDetail ELSE result.error
            IN  /\ tts_error' = e
                /\ TtsExcept(e)
                /\ UNCHANGED speech
    /\ UNCHANGED <<prompt, response, source, temp_filename, tmpdir, nextTmp,
                   completionCalls, completion, ttsCalls, returned>>

\* response.stream_to_file(temp_filename)
TtsStream(ok) ==
    /\ pc = "tts_stream"
    /\ IF ok
       THEN /\ tmpdir' = write(tmpdir, temp_filename, speech)
            /\ pc' = "tts_read"
            /\ UNCHANGED <<screen, audio_bytes, escaped, messages, tts_error>>
       ELSE /\ tts_error' = OSErrorDetail
            /\ TtsExcept(OSErrorDetail)
            /\ UNCHANGED tmpdir
    /\ UNCHANGED <<prompt, response, source, temp_filename, speech, nextTmp,
                   completionCalls, completion, ttsCalls, returned>>

\* with open(temp_filename, 'rb') as f: audio_bytes = f.read()
TtsRead(ok) ==
    /\ pc = "tts_read"
    /\ IF ok
       THEN /\ audio_bytes' = Bytes(tmpdir[temp_filename])
            /\ pc' = "tts_unlink"
            /\ UNCHANGED <<screen, escaped, messages, tts_error>>
       ELSE /\ tts_error' = IOErrorDetail
            /\ TtsExcept(IOErrorDetail)
    /\ UNCHANGED <<prompt, response, source, temp_filename, speech, tmpdir, nextTmp,
                   completionCalls, completion, ttsCalls, returned>>

\* os.unlink(temp_filename); return audio_bytes.  Back in the handler the
\* audio widget is written when the bytes are non-empty.
TtsUnlink ==
    /\ pc = "tts_unlink"
    /\ tmpdir' = unlink(tmpdir, temp_filename)
    /\ screen' = IF Truthy(audio_bytes)
                 THEN screen \o <<Widget("write", Str(<<"Listen to response:">>)),
                                  Widget("audio", audio_bytes)>>
                 ELSE screen
    /\ pc' = after("text_to_speech")
    /\ UNCHANGED <<messages, prompt, response, source, audio_bytes, temp_filename,
                   speech, nextTmp, completionCalls, completion, ttsCalls, tts_error,
                   returned, escaped>>

\* The append overwriting the last turn instead of adding one.
AppendAssistant_overwrite ==
    /\ pc = "append"
    /\ messages' = [messages EXCEPT ![Len(messages)] = AssistantTurn(response, source)]
    /\ pc' = after("append")
    /\ UNCHANGED <<prompt, response, source, audio_bytes, temp_filename, speech,
                   tmpdir, nextTmp, screen, completionCalls, completion, ttsCalls,
                   tts_error, returned, escaped>>

\* The append placed inside the `if audio_bytes:` block.
AppendAssistant_when_audio ==
    /\ pc = "append"
    /\ messages' = IF Truthy(audio_bytes)
                   THEN Append(messages, AssistantTurn(response, source))
                   ELSE messages
    /\ pc' = after("append")
    /\ UNCHANGED <<prompt, response, source, audio_bytes, temp_filename, speech,
                   tmpdir, nextTmp, screen, completionCalls, completion, ttsCalls,
                   tts_error, returned, escaped>>

\* st.session_state.messages.append({"role": "assistant", "content": response,
\* "source": source})
AppendAssistant ==
    /\ pc = "append"
    /\ messages' = Append(messages, AssistantTurn(response, source))
    /\ pc' = after("append")
    /\ UNCHANGED <<prompt, response, source, audio_bytes, temp_filename, speech,
                   tmpdir, nextTmp, screen, completionCalls, completion, ttsCalls,
                   tts_error, returned, escaped>>

Next ==
    \/ \E q \in SessionQuestions : Submit(q)
    \/ \E outcome \in CompletionOutcomes : Resolve(outcome)
    \/ \E ok \in BOOLEAN : TtsTempFile(ok)
    \/ \E result \in TtsResults : TtsRequest(result)
    \/ \E ok \in BOOLEAN : TtsStream(ok)
    \/ \E ok \in BOOLEAN : TtsRead(ok)
    \/ TtsUnlink
    \/ AppendAssistant

Spec == Init /\ [][Next]_vars

\* One question of the bounded question set put to a fresh session, and its
\* resolution.
InitResolve ==
    \E q \in Questions :
        /\ messages = <<UserTurn(Str(q))>>
        /\ pc = "get_response"
        /\ prompt = q
        /\ response = None
        /\ source = "None"
        /\ audio_bytes = None
        /\ temp_filename = 0
        /\ speech = <<>>
        /\ tmpdir = <<>>
        /\ nextTmp = 0
        /\ screen = <<Widget("markdown", Str(q))>>
        /\ completionCalls = 0
        /\ completion = NoCall
        /\ ttsCalls = 0
        /\ tts_error = NoError
        /\ returned = <<>>
        /\ escaped = NoError

NextResolve == \E outcome \in CompletionOutcomes : Resolve(outcome)

SpecResolve == InitResolve /\ [][NextResolve]_vars

----------------------------------------------------------------------------
(* Properties *)

\* Two characters that differ at most in case.
SameLetter(a, b) ==
    a = b \/ \E i \in 1..26 : {a, b} = {UpperAlpha[i], LowerAlpha[i]}

\* Keyword k occurs in question q as a case-insensitive substring.
KeywordIn(k, q) ==
    \E off \in 0..(Len(q) - Len(k)) :
        \A j \in 1..Len(k) : SameLetter(q[off + j], k[j])

AnyKeyword(q) == \E i \in 1..Len(faq_responses) : KeywordIn(faq_responses[i].key, q)

FirstKeyword(q) ==
    CHOOSE i \in 1..Len(faq_responses) :
        /\ KeywordIn(faq_responses[i].key, q)
        /\ \A j \in 1..(i - 1) : ~KeywordIn(faq_responses[j].key, q)

Users == Cardinality({ i \in 1..Len(messages) : messages[i].role = "user" })

Assistants == Cardinality({ i \in 1..Len(messages) : messages[i].role = "assistant" })

OnScreen(w) == \E i \in 1..Len(screen) : screen[i] = w

AcceptsQuestion == ENABLED (\E q \in SessionQuestions : Submit(q))

\* C1: a question containing a FAQ keyword as a case-insensitive substring is
\* answered with source "FAQ" and exactly the canned answer of the first such
\* keyword in table order, whatever the lengths or positions of the matches.
C1_FaqFirstMatchWins ==
    \A k \in 1..Len(returned) :
        AnyKeyword(returned[k].question) =>
            /\ returned[k].source = "FAQ"
            /\ returned[k].response =
                   Str(faq_responses[FirstKeyword(returned[k].question)].answer)

\* A question in mixed case that holds "dining reservations" before
\* "tickets" has been resolved.
C1_Witness ==
    /\ Len(returned) = 1
    /\ returned[1].source = "FAQ"
    /\ returned[1].question # lower(returned[1].question)
    /\ KeywordIn(faq_responses[1].key, returned[1].question)
    /\ KeywordIn(faq_responses[4].key, returned[1].question)
    /\ ~KeywordIn(faq_responses[1].key, SubSeq(returned[1].question, 1, 19))

\* C2: a question containing no FAQ keyword is answered with source "AI" and
\* a non-empty string no longer than the output limit, whatever the
\* completion endpoint did.
C2_AiAnswerNonEmptyBounded ==
    \A k \in 1..Len(returned) :
        ~AnyKeyword(returned[k].question) =>
            /\ returned[k].source = "AI"
            /\ returned[k].response.type = "str"
            /\ Len(returned[k].response.val) >= 1
            /\ Len(returned[k].response.val) <= max_tokens

CompletionFailed ==
    completion # NoCall /\ (completion.error # NoError \/ completion.choices = <<>>)

FailureDetail ==
    IF completion.error # NoError THEN completion.error ELSE IndexErrorDetail

\* C3: no failure of the completion endpoint leaves get_openai_response; the
\* failure becomes an apology string holding the error detail, get_response
\* returns it tagged "AI", the turn is completed with it, and the session
\* then accepts the next question.
C3_CompletionFailureContained ==
    /\ escaped = NoError
    /\ CompletionFailed =>
        /\ response.type = "str"
        /\ contains(ApologyPrefix, response.val)
        /\ contains(FailureDetail, response.val)
        /\ source = "AI"
        /\ returned[Len(returned)] =
               [question |-> prompt, response |-> response, source |-> "AI"]
        /\ pc = "idle" =>
            /\ messages[Len(messages)].role = "assistant"
            /\ messages[Len(messages)].content = response
            /\ messages[Len(messages)].source = "AI"
            /\ Len(messages) < 2 * MaxQuestions => AcceptsQuestion

\* The first question met a failing endpoint and was answered with the
\* apology; a second question has been resolved after it.
C3_Witness ==
    /\ pc = "idle"
    /\ Len(messages) = 4
    /\ contains(ApologyPrefix \o <<"Connection error.">>, messages[2].content.val)
    /\ messages[2].source = "AI"
    /\ messages[4].source = "FAQ"

\* C4: when text_to_speech has returned, on its success path and on every
\* failure path, no temporary file is left.
C4_NoTempFileLeft ==
    pc \in {"append", "idle"} => DOMAIN tmpdir = {}

\* C5: when speech synthesis fails, no exception leaves text_to_speech, it
\* returns None, no audio widget is written, the text answer is on screen,
\* and the answer is appended as the assistant turn of a session that goes on
\* accepting questions.
C5_SpeechFailureContained ==
    tts_error # NoError =>
        /\ escaped = NoError
        /\ pc \in {"append", "idle"}
        /\ audio_bytes = None
        /\ \A i \in 1..Len(screen) : screen[i].widget # "audio"
        /\ OnScreen(Widget("markdown", response))
        /\ OnScreen(Widget("error", Str(<<"Error generating audio: ">> \o tts_error)))
        /\ pc = "idle" =>
            /\ messages[Len(messages)].role = "assistant"
            /\ messages[Len(messages)].content = response
            /\ messages[Len(messages)].source = source
            /\ Len(messages) < 2 * MaxQuestions => AcceptsQuestion

\* The speech request failed for a question, and the turn was completed.
C5_Witness ==
    /\ tts_error = <<"Connection error.">>
    /\ pc = "idle"
    /\ Len(messages) = 2
    /\ messages[2].role = "assistant"
    /\ AcceptsQuestion

\* C6: the transcript starts empty and every step leaves it unchanged or adds
\* one turn at its end, so the earlier transcript is a prefix of the later.
C6_TranscriptAppendOnly ==
    /\ messages = <<>>
    /\ [][ \/ messages' = messages
           \/ /\ Len(messages') = Len(messages) + 1
              /\ SubSeq(messages', 1, Len(messages)) = messages ]_vars

\* Two questions have been processed.
C6_Witness == Len(messages) = 4 /\ pc = "idle"

\* C7: a turn has a source tag iff it is an assistant turn; an assistant
\* turn's content and source are the pair get_response returned for the user
\* turn before it; a tag, once stored, does not change.
C7_SourceTagFromResolver ==
    /\ [](\A i \in 1..Len(messages) :
            /\ ("source" \in DOMAIN messages[i]) <=> (messages[i].role = "assistant")
            /\ messages[i].role = "assistant" =>
                /\ i % 2 = 0
                /\ messages[i - 1].role = "user"
                /\ returned[i \div 2].question = messages[i - 1].content.val
                /\ messages[i].content = returned[i \div 2].response
                /\ messages[i].source = returned[i \div 2].source)
    /\ [][ \A i \in 1..Len(messages) :
              "source" \in DOMAIN messages[i] =>
                  /\ i <= Len(messages')
                  /\ "source" \in DOMAIN messages'[i]
                  /\ messages'[i].source = messages[i].source ]_vars

\* A transcript holding a FAQ-tagged and an AI-tagged assistant turn.
C7_Witness ==
    /\ Len(messages) = 4
    /\ messages[2].source = "FAQ"
    /\ messages[4].source = "AI"

InSpeech == {"tts_request", "tts_stream", "tts_read", "tts_unlink"}

\* C8 as stated: while the answer is passed to text_to_speech and while
\* text_to_speech runs, the assistant turn is already in the transcript.
C8_AppendBeforeSpeech ==
    pc \in {"tts_tempfile"} \cup InSpeech =>
        /\ Len(messages) > 0
        /\ messages[Len(messages)].role = "assistant"
        /\ messages[Len(messages)].content = response

\* C8 amended: for each question the order is resolver, speech call, append.
\* When the answer is passed to text_to_speech the resolver has returned and
\* the last turn is still the user's; the assistant turn is appended only
\* after text_to_speech has returned.
C8_ResolveSpeakAppend ==
    /\ pc = "get_response" =>
           Len(returned) = Users - 1 /\ ttsCalls = Users - 1 /\ Assistants = Users - 1
    /\ pc = "tts_tempfile" =>
           Len(returned) = Users /\ ttsCalls = Users - 1 /\ Assistants = Users - 1
    /\ pc \in InSpeech \cup {"append"} =>
           Len(returned) = Users /\ ttsCalls = Users /\ Assistants = Users - 1
    /\ pc = "idle" =>
           Len(returned) = Users /\ ttsCalls = Users /\ Assistants = Users
    /\ pc # "idle" => messages[Len(messages)].role = "user"

\* text_to_speech is running on the answer while the last turn of the
\* transcript is the user's question.
C8_Witness ==
    /\ pc = "tts_stream"
    /\ Len(messages) = 3
    /\ messages[3].role = "user"
    /\ Truthy(response)

\* C9: the completion endpoint has received exactly one request per resolved
\* question that holds no FAQ keyword and none for the others: no retry after
\* a failure, no reuse of an earlier answer to the same question.
C9_OneCallPerMiss ==
    completionCalls =
        Cardinality({ k \in 1..Len(returned) : ~AnyKeyword(returned[k].question) })

\* The same non-FAQ question was asked twice, the first time with a failing
\* endpoint, and two requests were issued.
C9_Witness ==
    /\ Len(returned) = 2
    /\ returned[1].question = returned[2].question
    /\ ~AnyKeyword(returned[1].question)
    /\ contains(ApologyPrefix, returned[1].response.val)
    /\ completionCalls = 2

\* C10: the transcript alternates user and assistant turns starting with a
\* user turn; between script runs it holds two turns per question, and during
\* a run only the last user turn waits for its assistant turn.
C10_TurnsAlternate ==
    /\ \A i \in 1..Len(messages) :
           messages[i].role = IF i % 2 = 1 THEN "user" ELSE "assistant"
    /\ pc = "idle" => Len(messages) = 2 * Users
    /\ pc # "idle" => Len(messages) = 2 * Users - 1

\* Two questions processed: the first with a failed completion and a failed
\* speech request, the second a FAQ hit.
C10_Witness ==
    /\ pc = "idle"
    /\ Len(messages) = 4
    /\ contains(ApologyPrefix, messages[2].content.val)
    /\ DOMAIN tmpdir = {1}
    /\ messages[4].source = "FAQ"

====
